---- MODULE Spec2Model ----
(***************************************************************************)
(* A model of the markdown-to-social pipeline of the tips repository:      *)
(* scripts/process_post.py, scripts/prepare_social_post.py and             *)
(* scripts/generate_images.py, and of the masking example examples/pii.py. *)
(*                                                                         *)
(* Text is modelled character by character: a Python str is a sequence of  *)
(* one-character strings, and every regular expression of the scripts is   *)
(* an operator that scans such a sequence the way Python's re module does  *)
(* (leftmost match, greedy and lazy quantifiers with their backtracking).  *)
(***************************************************************************)
EXTENDS Integers, Sequences, FiniteSets, TLC

VARIABLES
    pc,             \* position of the run
    content,        \* markdown_content / the text read from the file
    regions,        \* how the document of SpecExtract was put together
    code_blocks,    \* result of extract_code_blocks
    clean_once,     \* clean_for_social(content)
    clean_twice,    \* clean_for_social(clean_for_social(content))
    doc_parts,      \* how the document of Spec was put together
    block_i,        \* process_markdown_file: index of the next block to verify
    verified,       \* process_markdown_file: the document-level flag
    results,        \* what verify_python_code did for each block visited so far
    tmp_files,      \* temporary files that exist (named by block index)
    post_data,      \* the dict process_markdown_file returns
    linkedin_content,
    tweets,         \* twitter_threads
    files,          \* what prepare_social_post has created on disk
    input_exists,   \* prepare_social_post: the markdown file exists
    image_paths,    \* the image manifest (prepare_social_post) or the list of
                    \* paths (process_code_blocks_from_file)
    root_dirs,      \* the image files in the directories "." and ".."
    root_images,    \* prepare_social_post: the paths the searches found
    move_i,         \* prepare_social_post: index of the next image to move
    move_log,       \* prepare_social_post: what was printed for each image
    img_i,          \* process_code_blocks_from_file: index of the next block
    renderer_calls, \* what generate_image_with_carbon did for each block rendered
    staged,         \* staged temporary files that exist (named by block index)
    images,         \* the image files in the output directory of the renderer
    pii_text,       \* mask_pii: text
    analyzer_results, \* mask_pii: results of analyzer.analyze
    mapping,        \* mask_pii: the mapping returned
    masked,         \* mask_pii: the text returned
    unmasked        \* unmask_pii(masked, mapping)

\* the variables of the image reconciliation of prepare_social_post
asmVars == <<input_exists, image_paths, root_dirs, root_images, move_i, move_log>>

\* the variables of process_code_blocks_from_file
imgVars == <<img_i, renderer_calls, staged, images>>

\* the variables of mask_pii and unmask_pii
piiVars == <<pii_text, analyzer_results, mapping, masked, unmasked>>

vars == <<pc, content, regions, code_blocks, clean_once, clean_twice, doc_parts, block_i,
          verified, results, tmp_files, post_data, linkedin_content, tweets, files,
          asmVars, imgVars, piiVars>>

\* the variables of process_markdown_file and prepare_social_post
runVars == <<doc_parts, block_i, verified, results, tmp_files, post_data, linkedin_content,
             tweets, files, asmVars, imgVars, piiVars>>

AsmUnused ==
    /\ input_exists = TRUE
    /\ image_paths = <<>>
    /\ root_dirs = <<>>
    /\ root_images = <<>>
    /\ move_i = 0
    /\ move_log = <<>>

ImgUnused ==
    /\ img_i = 0
    /\ renderer_calls = <<>>
    /\ staged = {}
    /\ images = {}

PiiUnused ==
    /\ pii_text = <<>>
    /\ analyzer_results = <<>>
    /\ mapping = <<>>
    /\ masked = <<>>
    /\ unmasked = <<>>

RunUnused ==
    /\ doc_parts = <<>>
    /\ block_i = 0
    /\ verified = TRUE
    /\ results = <<>>
    /\ tmp_files = {}
    /\ post_data = <<>>
    /\ linkedin_content = <<>>
    /\ tweets = <<>>
    /\ files = {}
    /\ AsmUnused
    /\ ImgUnused
    /\ PiiUnused

----------------------------------------------------------------------------
(* Bounds of the model *)

MaxRegions == 2     \* regions (text, fenced block, open fence) per document
MaxLines == 2       \* lines inside one fenced block
MaxCleanSegs == 4   \* pieces of text a document of SpecClean is made of
MaxBlocks == 2      \* fenced blocks in a document of Spec
MaxTextLen == 3     \* characters in a text given to mask_pii
MaxResults == 2     \* results the analyzer returns for one text

----------------------------------------------------------------------------
(* Characters and strings *)

NL == "\n"

\* \s of Python's re for str patterns, restricted to ASCII
Whitespace == {" ", "\n", "\t", "\r", "\f"}

Lowercase == {"a","b","c","d","e","f","g","h","i","j","k","l","m",
              "n","o","p","q","r","s","t","u","v","w","x","y","z"}
Uppercase == {"A","B","C","D","E","F","G","H","I","J","K","L","M",
              "N","O","P","Q","R","S","T","U","V","W","X","Y","Z"}
Digits == {"0","1","2","3","4","5","6","7","8","9"}

\* \w of Python's re, restricted to ASCII
WordChars == Lowercase \cup Uppercase \cup Digits \cup {"_"}

IsSpace(c) == c \in Whitespace
IsWord(c) == c \in WordChars

Min(S) == CHOOSE x \in S : \A y \in S : x <= y
Max(S) == CHOOSE x \in S : \A y \in S : x >= y

\* s[p..] starts with lit
StartsAt(s, p, lit) ==
    /\ p >= 1
    /\ p + Len(lit) - 1 <= Len(s)
    /\ \A k \in 1..Len(lit) : s[p + k - 1] = lit[k]

\* str.startswith
StartsWith(s, lit) == StartsAt(s, 1, lit)

\* str.endswith
EndsWith(s, lit) == StartsAt(s, Len(s) - Len(lit) + 1, lit)

\* first position >= from where lit occurs in s, 0 when it does not (str.find + 1)
IndexOf(s, lit, from) ==
    LET hits == {p \in from..Len(s) : StartsAt(s, p, lit)}
    IN  IF hits = {} THEN 0 ELSE Min(hits)

\* lit in s
Contains(s, lit) == IndexOf(s, lit, 1) # 0

\* s[from:] as Python slices it (from is 1-based here)
From(s, from) == SubSeq(s, from, Len(s))

\* first position >= p of s that holds no whitespace (Len(s) + 1 when none):
\* where a greedy \s* or \s+ started at p ends
SkipSpace(s, p) ==
    LET stops == {q \in p..Len(s) : ~IsSpace(s[q])}
    IN  IF stops = {} THEN Len(s) + 1 ELSE Min(stops)

\* first position >= p of s that holds no word character: where a greedy \w* ends
SkipWord(s, p) ==
    LET stops == {q \in p..Len(s) : ~IsWord(s[q])}
    IN  IF stops = {} THEN Len(s) + 1 ELSE Min(stops)

\* position of the first newline at or after p (Len(s) + 1 when none):
\* where a greedy .+ or .* started at p ends without re.DOTALL
LineEnd(s, p) ==
    LET stops == {q \in p..Len(s) : s[q] = NL}
    IN  IF stops = {} THEN Len(s) + 1 ELSE Min(stops)

\* ^ under re.MULTILINE: the start of the string or just after a newline
LineStart(s, p) == p = 1 \/ (p >= 2 /\ p - 1 <= Len(s) /\ s[p - 1] = NL)

\* str.strip(): drop leading and trailing whitespace
Strip(s) ==
    LET keep == {q \in 1..Len(s) : ~IsSpace(s[q])}
    IN  IF keep = {} THEN <<>> ELSE SubSeq(s, Min(keep), Max(keep))

\* str.lower() on ASCII
LowerChar(c) ==
    IF c \in Uppercase
    THEN CHOOSE l \in Lowercase :
           \E i \in 1..26 :
             /\ <<"A","B","C","D","E","F","G","H","I","J","K","L","M",
                  "N","O","P","Q","R","S","T","U","V","W","X","Y","Z">>[i] = c
             /\ <<"a","b","c","d","e","f","g","h","i","j","k","l","m",
                  "n","o","p","q","r","s","t","u","v","w","x","y","z">>[i] = l
    ELSE c
Lower(s) == [k \in 1..Len(s) |-> LowerChar(s[k])]

RECURSIVE Concat(_)
\* "".join(parts)
Concat(parts) ==
    IF parts = <<>> THEN <<>> ELSE Head(parts) \o Concat(Tail(parts))

----------------------------------------------------------------------------
(* String literals of the scripts *)

\* a backtick cannot be written inside a TLA+ string: the character is named
Backtick == "BQ"
Fence == <<Backtick, Backtick, Backtick>>
S_python == <<"p", "y", "t", "h", "o", "n">>
S_BEFORE == <<"B", "E", "F", "O", "R", "E", ":">>
S_AFTER == <<"A", "F", "T", "E", "R", ":">>

----------------------------------------------------------------------------
(* extract_code_blocks *)

\* One attempt of the pattern ```(\w*)\n(.*?)``` (re.DOTALL) at position i:
\* the three backticks, the longest run of word characters (it must be
\* followed by a newline, so no shorter run can match), then lazily up to
\* the first ``` that follows.  nxt is where the scan goes on.
FenceMatch(s, i) ==
    LET w == SkipWord(s, i + 3)
        close == IF w <= Len(s) /\ s[w] = NL THEN IndexOf(s, Fence, w + 1) ELSE 0
    IN  IF StartsAt(s, i, Fence) /\ close # 0
        THEN [ok |-> TRUE, lang |-> SubSeq(s, i + 3, w - 1),
              code |-> SubSeq(s, w + 1, close - 1), nxt |-> close + 3]
        ELSE [ok |-> FALSE, lang |-> <<>>, code |-> <<>>, nxt |-> i + 1]

RECURSIVE FindAllFences(_, _)
\* re.findall(pattern, markdown_content, re.DOTALL): the non-overlapping
\* matches from left to right, as (lang, code) pairs
FindAllFences(s, i) ==
    LET hits == {p \in i..Len(s) : FenceMatch(s, p).ok}
    IN  IF hits = {} THEN <<>>
        ELSE LET m == FenceMatch(s, Min(hits))
             IN  <<[lang |-> m.lang, code |-> m.code]>> \o FindAllFences(s, m.nxt)

\* re.search(r'^#\s*WORD', code, re.MULTILINE) is not None
LabelSearch(code, word) ==
    \E p \in 1..Len(code) :
        /\ LineStart(code, p)
        /\ code[p] = "#"
        /\ StartsAt(code, SkipSpace(code, p + 1), word)

block_label(code) ==
    IF LabelSearch(code, S_BEFORE) THEN "BEFORE"
    ELSE IF LabelSearch(code, S_AFTER) THEN "AFTER"
    ELSE ""

extract_code_blocks(markdown_content) ==
    LET blocks == FindAllFences(markdown_content, 1)
    IN  [k \in 1..Len(blocks) |->
            [lang |-> blocks[k].lang, code |-> blocks[k].code,
             label |-> block_label(blocks[k].code)]]

----------------------------------------------------------------------------
(* clean_for_social *)

S_placeholder ==
    <<"[", "C", "o", "d", "e", " ", "e", "x", "a", "m", "p", "l", "e", " ",
      "-", " ", "s", "e", "e", " ", "a", "t", "t", "a", "c", "h", "e", "d",
      " ", "i", "m", "a", "g", "e", "]">>
S_Python == <<"P", "y", "t", "h", "o", "n">>

RECURSIVE SubFences(_, _)
\* re.sub(r"```\w*\n.*?```", placeholder, s, flags=re.DOTALL), from position i
SubFences(s, i) ==
    LET hits == {p \in i..Len(s) : FenceMatch(s, p).ok}
    IN  IF hits = {} THEN From(s, i)
        ELSE LET p == Min(hits)
             IN  SubSeq(s, i, p - 1) \o S_placeholder
                   \o SubFences(s, FenceMatch(s, p).nxt)

\* where the run of "#" that starts at p ends
SkipHashes(s, p) ==
    LET stops == {q \in p..Len(s) : s[q] # "#"}
    IN  IF stops = {} THEN Len(s) + 1 ELSE Min(stops)

\* One attempt of ^#{lo,hi}\s+(.+)$ (re.MULTILINE) at position p.  The run
\* of hashes must be lo..hi long and be followed by whitespace; \s+ is
\* greedy and crosses newlines, and gives characters back until the group
\* (.+) finds a character that is no newline; the group runs to the end of
\* that line.  from/to delimit the group, nxt is the end of the match.
HeadingMatch(s, p, lo, hi) ==
    LET q == SkipHashes(s, p)
        e == SkipSpace(s, q)
        starts == {t \in (q + 1)..e : t <= Len(s) /\ s[t] # NL}
        t == IF starts = {} THEN 0 ELSE Max(starts)
    IN  IF /\ LineStart(s, p)
           /\ q - p >= lo
           /\ q - p <= hi
           /\ t # 0
        THEN [ok |-> TRUE, from |-> t, to |-> LineEnd(s, t) - 1, nxt |-> LineEnd(s, t)]
        ELSE [ok |-> FALSE, from |-> 0, to |-> 0, nxt |-> p + 1]

RECURSIVE SubHeadings(_, _)
\* re.sub(r"^#{1,6}\s+(.+)$", r"\1", s, flags=re.MULTILINE), from position i
SubHeadings(s, i) ==
    LET hits == {p \in i..Len(s) : HeadingMatch(s, p, 1, 6).ok}
    IN  IF hits = {} THEN From(s, i)
        ELSE LET p == Min(hits)
                 m == HeadingMatch(s, p, 1, 6)
             IN  SubSeq(s, i, p - 1) \o SubSeq(s, m.from, m.to)
                   \o SubHeadings(s, m.nxt)

\* One attempt of ^Python\s*$ (re.MULTILINE) at position p: 0 when it fails,
\* else the end of the match.  \s* is greedy and gives characters back until
\* it stands at the end of the string or before a newline.
PythonLineMatch(s, p) ==
    LET q == p + Len(S_Python)
        e == SkipSpace(s, q)
        ends == {t \in q..e : t = Len(s) + 1 \/ (t <= Len(s) /\ s[t] = NL)}
    IN  IF LineStart(s, p) /\ StartsAt(s, p, S_Python) /\ ends # {}
        THEN Max(ends) ELSE 0

RECURSIVE SubPythonLines(_, _)
\* re.sub(r"^Python\s*$", "", s, flags=re.MULTILINE), from position i
SubPythonLines(s, i) ==
    LET hits == {p \in i..Len(s) : PythonLineMatch(s, p) # 0}
    IN  IF hits = {} THEN From(s, i)
        ELSE LET p == Min(hits)
             IN  SubSeq(s, i, p - 1) \o SubPythonLines(s, PythonLineMatch(s, p))

\* where the run of newlines that starts at p ends
SkipNewlines(s, p) ==
    LET stops == {q \in p..Len(s) : s[q] # NL}
    IN  IF stops = {} THEN Len(s) + 1 ELSE Min(stops)

RECURSIVE SubBlankLines(_, _)
\* re.sub(r"\n{3,}", "\n\n", s), from position i
SubBlankLines(s, i) ==
    LET hits == {p \in i..Len(s) : SkipNewlines(s, p) - p >= 3}
    IN  IF hits = {} THEN From(s, i)
        ELSE LET p == Min(hits)
             IN  SubSeq(s, i, p - 1) \o <<NL, NL>>
                   \o SubBlankLines(s, SkipNewlines(s, p))

clean_for_social(markdown_content) ==
    LET c1 == SubFences(markdown_content, 1)
        c2 == SubHeadings(c1, 1)
        c3 == SubPythonLines(c2, 1)
        c4 == SubBlankLines(c3, 1)
    IN  Strip(c4)

----------------------------------------------------------------------------
(* verify_python_code *)

S_mirascope == <<"m","i","r","a","s","c","o","p","e">>
S_llm_call == <<"@","l","l","m",".","c","a","l","l">>
S_prompt_template ==
    <<"@","p","r","o","m","p","t","_","t","e","m","p","l","a","t","e">>

\* "mirascope" in code or "@llm.call" in code or "@prompt_template" in code
HasMarker(code) ==
    \/ Contains(code, S_mirascope)
    \/ Contains(code, S_llm_call)
    \/ Contains(code, S_prompt_template)

\* The code texts of the model that Python compiles without a SyntaxError:
\* the name expressions "x" and "mirascope".  The other texts of the model
\* ("x(", "mirascope(", "@llm.call") are syntax errors.
CompilingCodes == {<<"x", NL>>, S_mirascope \o <<NL>>}

\* compile(code, '<string>', 'exec') returns; py_compile decides the same
compile_ok(code) == code \in CompilingCodes

\* what the machine does when the second path writes its file and starts
\* the interpreter: all goes well, temp.write raises, or "python" cannot be
\* started (subprocess.run raises FileNotFoundError)
Envs == {"ok", "write_fails", "spawn_fails"}

\* verify_python_code without the mirascope branch of lines 59-69
verify_python_code_AlwaysSubprocess(code, env) ==
    IF env = "write_fails"
    THEN [called |-> TRUE, raised |-> TRUE, ret |-> FALSE,
          effects |-> {"tempfile"}, temp_left |-> TRUE]
    ELSE IF env = "spawn_fails"
    THEN [called |-> TRUE, raised |-> TRUE, ret |-> FALSE,
          effects |-> {"tempfile", "write", "unlink"}, temp_left |-> FALSE]
    ELSE [called |-> TRUE, raised |-> FALSE, ret |-> compile_ok(code),
          effects |-> {"tempfile", "write", "subprocess", "unlink"},
          temp_left |-> FALSE]

\* verify_python_code(code) on a machine that behaves as env says.
\* ret is the value returned, raised tells that an exception left the call,
\* effects are the operations performed, temp_left tells that the temporary
\* file still exists when the call ends.
verify_python_code(code, env) ==
    IF HasMarker(code)
    THEN [called |-> TRUE, raised |-> FALSE, ret |-> compile_ok(code),
          effects |-> {"compile"}, temp_left |-> FALSE]
    ELSE IF env = "write_fails"
    THEN [called |-> TRUE, raised |-> TRUE, ret |-> FALSE,
          effects |-> {"tempfile"}, temp_left |-> TRUE]
    ELSE IF env = "spawn_fails"
    THEN [called |-> TRUE, raised |-> TRUE, ret |-> FALSE,
          effects |-> {"tempfile", "write", "unlink"}, temp_left |-> FALSE]
    ELSE [called |-> TRUE, raised |-> FALSE, ret |-> compile_ok(code),
          effects |-> {"tempfile", "write", "subprocess", "unlink"},
          temp_left |-> FALSE]

\* a block the loop of process_markdown_file passes over
NotVerified ==
    [called |-> FALSE, raised |-> FALSE, ret |-> TRUE, effects |-> {},
     temp_left |-> FALSE]

\* lang.lower() == 'python'
IsPython(lang) == Lower(lang) = S_python

\* an update of the flag that takes the result of the last block
update_verified_LastWins(flag, passed) == passed

\* if not verify_python_code(code): verified = False
update_verified(flag, passed) == IF ~passed THEN FALSE ELSE flag

----------------------------------------------------------------------------
(* process_markdown_file: title, hook, first tweet, solution and takeaway *)

S_bold == <<"*", "*">>
S_h2 == <<"#", "#">>
S_h3 == <<"#", "#", "#">>
S_TheProblem == <<"T","h","e"," ","P","r","o","b","l","e","m">>
S_TheSolution == <<"T","h","e"," ","S","o","l","u","t","i","o","n">>
S_TheTakeaway == <<"T","h","e"," ","T","a","k","e","a","w","a","y">>

\* re.search(r"^##\s+(.+)$", content, re.MULTILINE): the leftmost match, or
\* a record with ok = FALSE
title_search(s) ==
    LET hits == {p \in 1..Len(s) : HeadingMatch(s, p, 2, 2).ok}
    IN  IF hits = {} THEN [ok |-> FALSE, from |-> 0, to |-> 0, nxt |-> 0]
        ELSE HeadingMatch(s, Min(hits), 2, 2)

\* title_match.group(1) if title_match else path.stem
extract_title(s, stem) ==
    LET m == title_search(s)
    IN  IF m.ok THEN SubSeq(s, m.from, m.to) ELSE stem

\* One attempt of ^\s*\*\*(.+?)\*\* (re.MULTILINE) at position p: the greedy
\* \s* crosses newlines and must be followed by **; the lazy group takes at
\* least one character, none of them a newline, up to the first ** after it.
\* from/to delimit the group.
HookMatch(s, p) ==
    LET q == SkipSpace(s, p)
        closes == {c \in (q + 3)..LineEnd(s, q + 2) : StartsAt(s, c, S_bold)}
    IN  IF LineStart(s, p) /\ StartsAt(s, q, S_bold) /\ closes # {}
        THEN [ok |-> TRUE, from |-> q + 2, to |-> Min(closes) - 1]
        ELSE [ok |-> FALSE, from |-> 0, to |-> 0]

\* hook: group 1 of re.search(r"^\s*\*\*(.+?)\*\*", after_title, re.MULTILINE),
\* "" without a match; after_title is the content from the end of the title match
extract_hook(s) ==
    LET tm == title_search(s)
        after_title == IF tm.ok THEN From(s, tm.nxt) ELSE s
        hits == {p \in 1..Len(after_title) : HookMatch(after_title, p).ok}
        m == HookMatch(after_title, Min(hits))
    IN  IF hits = {} THEN <<>> ELSE SubSeq(after_title, m.from, m.to)

\* start of the leftmost match of ###\s+WORDS followed by one of the strings
\* of tails (tails = {<<>>} when nothing has to follow), 0 without a match
H3Search(s, words, tails) ==
    LET hits == {p \in 1..Len(s) :
                   LET q == SkipSpace(s, p + 3)
                   IN  /\ StartsAt(s, p, S_h3)
                       /\ q > p + 3
                       /\ \E t \in tails : StartsAt(s, q, words \o t)}
    IN  IF hits = {} THEN 0 ELSE Min(hits)

RECURSIVE SplitParagraphs(_, _)
\* re.split(r"\n\n+", s), from position i
SplitParagraphs(s, i) ==
    LET hits == {p \in i..Len(s) : SkipNewlines(s, p) - p >= 2}
    IN  IF hits = {} THEN <<From(s, i)>>
        ELSE LET p == Min(hits)
             IN  <<SubSeq(s, i, p - 1)>> \o SplitParagraphs(s, SkipNewlines(s, p))

\* first_tweet_content
extract_first_tweet(s) ==
    LET problem == H3Search(s, S_TheProblem, {<<>>})
        paragraphs == SplitParagraphs(s, 1)
    IN  IF problem # 0 THEN Strip(SubSeq(s, 1, problem - 1))
        ELSE IF Len(paragraphs) > 2
             THEN Strip(paragraphs[2] \o <<NL, NL>> \o paragraphs[3])
             ELSE <<>>

\* sections cut as soon as one of the two headings matches
extract_sections_EitherHeading(s) ==
    LET sol == H3Search(s, S_TheSolution, {<<c>> : c \in {":"} \cup Whitespace})
        take == H3Search(s, S_TheTakeaway, {<<>>})
    IN  [solution |-> IF sol = 0 THEN <<>>
                      ELSE Strip(SubSeq(s, sol, IF take # 0 THEN take - 1 ELSE Len(s))),
         takeaway |-> IF take = 0 THEN <<>> ELSE Strip(From(s, take))]

\* solution_content and takeaway_content: both stay "" unless both headings match
extract_sections(s) ==
    LET sol == H3Search(s, S_TheSolution, {<<c>> : c \in {":"} \cup Whitespace})
        take == H3Search(s, S_TheTakeaway, {<<>>})
    IN  IF sol # 0 /\ take # 0
        THEN [solution |-> Strip(SubSeq(s, sol, take - 1)),
              takeaway |-> Strip(From(s, take))]
        ELSE [solution |-> <<>>, takeaway |-> <<>>]

----------------------------------------------------------------------------
(* prepare_social_post: create_twitter_thread and the LinkedIn text *)

S_SolutionColon == <<"#","#","#"," ","T","h","e"," ","S","o","l","u","t","i","o","n",":"," ">>
S_SolutionSpace == <<"#","#","#"," ","T","h","e"," ","S","o","l","u","t","i","o","n"," ">>
S_TakeawayHeading == <<"#","#","#"," ","T","h","e"," ","T","a","k","e","a","w","a","y">>
S_TakeawayLabel == <<"*","*","T","a","k","e","a","w","a","y",":","*","*">>
S_SolutionLabel == <<"*","*","S","o","l","u","t","i","o","n",":","*","*"," ">>
S_footer ==
    <<"\n","\n","#","E","f","f","e","c","t","i","v","e","A","I"," ","#","A","I",
      "E","n","g","i","n","e","e","r","i","n","g">>

RECURSIVE Replace(_, _, _, _)
\* s.replace(old, new) for a non-empty old, from position i; with new = ""
\* also re.sub(re.escape(old), "", s)
Replace(s, old, new, i) ==
    LET p == IndexOf(s, old, i)
    IN  IF p = 0 THEN From(s, i)
        ELSE SubSeq(s, i, p - 1) \o new \o Replace(s, old, new, p + Len(old))

\* re.sub(r"^##.*?\n\n", "", s): without re.MULTILINE the pattern matches at
\* the start of the string only, and "." stops at a newline, so it removes a
\* first line that starts with ## and is directly followed by an empty line
remove_title(s) ==
    LET e == LineEnd(s, 3)
    IN  IF StartsWith(s, S_h2) /\ StartsAt(s, e, <<NL, NL>>)
        THEN From(s, e + 2) ELSE s

\* the first tweet: hook and introduction
first_tweet_text(post) ==
    LET hooked == IF post.hook # <<>>
                  THEN S_bold \o post.hook \o S_bold ELSE <<>>
        hook_pattern == S_bold \o post.hook \o S_bold
        intro_text == Strip(Replace(remove_title(post.first_tweet),
                                    hook_pattern, <<>>, 1))
    IN  IF post.first_tweet # <<>> /\ intro_text # <<>>
        THEN (IF hooked # <<>> THEN hooked \o <<NL, NL>> \o intro_text
              ELSE intro_text)
        ELSE hooked

\* the solution part of the second tweet
solution_text(sol) ==
    LET replaced == Replace(Replace(sol, S_SolutionColon, S_bold, 1),
                            S_SolutionSpace, S_bold, 1)
    IN  IF sol = <<>> THEN <<>>
        ELSE IF ~StartsWith(replaced, S_bold) THEN S_SolutionLabel \o replaced
        ELSE replaced \o S_bold

\* the second tweet: solution, takeaway and the series footer
second_tweet_text(post) ==
    LET sol == solution_text(post.solution)
        take == Strip(Replace(post.takeaway, S_TakeawayHeading,
                              S_TakeawayLabel, 1))
        body == IF post.takeaway = <<>> THEN sol
                ELSE IF sol # <<>> THEN sol \o <<NL, NL>> \o take
                ELSE take
    IN  body \o S_footer

\* a thread that leaves out a first tweet with nothing in it
create_twitter_thread_DropEmpty(post) ==
    IF first_tweet_text(post) = <<>> THEN <<second_tweet_text(post)>>
    ELSE <<first_tweet_text(post), second_tweet_text(post)>>

create_twitter_thread(post) ==
    <<first_tweet_text(post), second_tweet_text(post)>>

\* linkedin_content
linkedin_text(clean_content) == remove_title(clean_content)

----------------------------------------------------------------------------
(* Documents for the extraction: a sequence of regions, each a line of     *)
(* text, a complete fenced block or an opening fence that is never closed. *)

BeforeLine == <<"#", " ">> \o S_BEFORE \o <<" ", "a">>
AfterLine == <<"#", " ">> \o S_AFTER \o <<" ", "b">>
CodeLine == <<"x">>
BlockLines == {BeforeLine, AfterLine, CodeLine}

SeqsUpTo(S, n) == UNION {[1..k -> S] : k \in 1..n}

Regions ==
    {[kind |-> "text", lang |-> <<>>, lines |-> <<<<"t">>>>]}
    \cup {[kind |-> "open", lang |-> S_python, lines |-> <<<<"y">>>>]}
    \cup [kind : {"block"}, lang : {S_python, <<>>},
          lines : SeqsUpTo(BlockLines, MaxLines)]

\* the lines of a region, each ended by a newline
RegionText(r) == Concat([k \in 1..Len(r.lines) |-> r.lines[k] \o <<NL>>])

RenderRegion(r) ==
    IF r.kind = "text" THEN RegionText(r)
    ELSE IF r.kind = "open" THEN Fence \o r.lang \o <<NL>> \o RegionText(r)
    ELSE Fence \o r.lang \o <<NL>> \o RegionText(r) \o Fence \o <<NL>>

RenderRegions(rs) == Concat([k \in 1..Len(rs) |-> RenderRegion(rs[k])])

\* the blocks a document has by construction: one per complete fenced
\* region, in document order, labelled by the first line of the region
FirstLineLabel(line) ==
    IF line = BeforeLine THEN "BEFORE"
    ELSE IF line = AfterLine THEN "AFTER"
    ELSE ""

RegionBlock(r) ==
    [lang |-> r.lang, code |-> RegionText(r), label |-> FirstLineLabel(r.lines[1])]

IsBlockRegion(r) == r.kind = "block"

CompleteBlocks(rs) ==
    LET bs == SelectSeq(rs, IsBlockRegion)
    IN  [k \in 1..Len(bs) |-> RegionBlock(bs[k])]

\* the index, among the complete blocks, of the block that is region j
BlockIndex(rs, j) == Cardinality({k \in 1..j : rs[k].kind = "block"})

LangCode(bs) == [k \in 1..Len(bs) |-> <<bs[k].lang, bs[k].code>>]

----------------------------------------------------------------------------
(* SpecExtract: extract_code_blocks applied to one document *)

InitExtract ==
    /\ pc = "start"
    /\ regions \in SeqsUpTo(Regions, MaxRegions)
    /\ content = RenderRegions(regions)
    /\ code_blocks = <<>>
    /\ clean_once = <<>>
    /\ clean_twice = <<>>
    /\ RunUnused

Extract ==
    /\ pc = "start"
    /\ code_blocks' = extract_code_blocks(content)
    /\ pc' = "extracted"
    /\ UNCHANGED <<content, regions, clean_once, clean_twice>>
    /\ UNCHANGED runVars

NextExtract == Extract

SpecExtract == InitExtract /\ [][NextExtract]_vars

\* C4: a document whose fences are all closed yields one entry per fenced
\* region, and a block labelled BEFORE immediately followed by a block
\* labelled AFTER comes out as those two entries, in that order, each with
\* its own language, code and label.
C4_BeforeAfterOrder ==
    (pc = "extracted" /\ \A j \in 1..Len(regions) : regions[j].kind # "open") =>
        /\ Len(code_blocks) = Len(CompleteBlocks(regions))
        /\ \A j \in 1..(Len(regions) - 1) :
             ( /\ regions[j].kind = "block"
               /\ regions[j + 1].kind = "block"
               /\ RegionBlock(regions[j]).label = "BEFORE"
               /\ RegionBlock(regions[j + 1]).label = "AFTER" ) =>
                 /\ code_blocks[BlockIndex(regions, j)] = RegionBlock(regions[j])
                 /\ code_blocks[BlockIndex(regions, j + 1)] = RegionBlock(regions[j + 1])

\* C5: when the document holds a fence that is never closed, the blocks
\* returned (language and code) are exactly those of the complete fenced
\* regions: the open fence yields nothing and hides nothing.  Stated for the
\* documents whose opening fences all carry a language tag, where no fence
\* line can be read both as an opening and as a closing one.
C5_OpenFenceOmitted ==
    ( /\ pc = "extracted"
      /\ \E j \in 1..Len(regions) : regions[j].kind = "open"
      /\ \A j \in 1..Len(regions) :
            regions[j].kind = "block" => regions[j].lang # <<>> ) =>
        LangCode(code_blocks) = LangCode(CompleteBlocks(regions))

\* C14: in a document whose fences are all closed, the label of each block
\* is the one its first line gives (BEFORE, AFTER or none): a BEFORE or AFTER
\* comment on a later line changes nothing.
C14_LabelFromFirstLine ==
    (pc = "extracted" /\ \A j \in 1..Len(regions) : regions[j].kind # "open") =>
        /\ Len(code_blocks) = Len(CompleteBlocks(regions))
        /\ \A k \in 1..Len(code_blocks) :
             code_blocks[k].label = CompleteBlocks(regions)[k].label

----------------------------------------------------------------------------
(* SpecClean: clean_for_social applied to a text, then to its own result *)

CleanSegs == {<<"#">>, <<" ">>, <<NL>>, <<"x">>, S_Python, Fence}

InitClean ==
    /\ pc = "start"
    /\ content \in {Concat(segs) : segs \in {<<>>} \cup SeqsUpTo(CleanSegs, MaxCleanSegs)}
    /\ regions = <<>>
    /\ code_blocks = <<>>
    /\ clean_once = <<>>
    /\ clean_twice = <<>>
    /\ RunUnused

CleanOnce ==
    /\ pc = "start"
    /\ clean_once' = clean_for_social(content)
    /\ pc' = "once"
    /\ UNCHANGED <<content, regions, code_blocks, clean_twice>>
    /\ UNCHANGED runVars

CleanTwice ==
    /\ pc = "once"
    /\ clean_twice' = clean_for_social(clean_once)
    /\ pc' = "twice"
    /\ UNCHANGED <<content, regions, code_blocks, clean_once>>
    /\ UNCHANGED runVars

NextClean == CleanOnce \/ CleanTwice

SpecClean == InitClean /\ [][NextClean]_vars

\* C1: clean_for_social is idempotent: cleaning the cleaned text changes nothing.
C1_CleanIdempotent == pc = "twice" => clean_twice = clean_once

----------------------------------------------------------------------------
(* SpecThread: create_twitter_thread applied to one parsed post *)

S_footer_text ==
    <<"#","E","f","f","e","c","t","i","v","e","A","I"," ","#","A","I","E","n",
      "g","i","n","e","e","r","i","n","g">>

ThreadHooks == {<<>>, <<"H">>}
ThreadIntros ==
    {<<>>, <<"i">>,
     S_h2 \o <<" ", "T", NL, NL>> \o S_bold \o <<"H">> \o S_bold \o <<NL, NL, "i">>,
     S_bold \o <<"H">> \o S_bold}
ThreadSolutions ==
    {<<>>, <<"g">>, S_SolutionColon \o <<"Y", NL, NL, "g">>,
     S_h3 \o <<" ">> \o S_TheSolution \o <<NL, NL, "g">>}
ThreadTakeaways ==
    {<<>>, <<"f">>, S_TakeawayHeading \o <<NL, NL, "f">>, S_TakeawayHeading}

InitThread ==
    /\ pc = "start"
    /\ post_data \in [hook : ThreadHooks, first_tweet : ThreadIntros,
                      solution : ThreadSolutions, takeaway : ThreadTakeaways]
    /\ content = <<>>
    /\ regions = <<>>
    /\ code_blocks = <<>>
    /\ clean_once = <<>>
    /\ clean_twice = <<>>
    /\ doc_parts = <<>>
    /\ block_i = 0
    /\ verified = TRUE
    /\ results = <<>>
    /\ tmp_files = {}
    /\ linkedin_content = <<>>
    /\ tweets = <<>>
    /\ files = {}
    /\ AsmUnused
    /\ ImgUnused
    /\ PiiUnused

CreateThread ==
    /\ pc = "start"
    /\ tweets' = create_twitter_thread(post_data)
    /\ pc' = "threaded"
    /\ UNCHANGED <<content, regions, code_blocks, clean_once, clean_twice,
                   doc_parts, block_i, verified, results, tmp_files, post_data,
                   linkedin_content, files>>
    /\ UNCHANGED <<asmVars, imgVars, piiVars>>

NextThread == CreateThread

SpecThread == InitThread /\ [][NextThread]_vars

\* C2: whatever fields of the parsed post are empty, the thread is a list of
\* exactly two strings and the second ends with the footer.
C2_TwoTweetsWithFooter ==
    pc = "threaded" =>
        /\ Len(tweets) = 2
        /\ EndsWith(tweets[2], S_footer_text)

\* a post with nothing in it has been turned into a thread
C2_Witness ==
    /\ pc = "threaded"
    /\ post_data.hook = <<>>
    /\ post_data.first_tweet = <<>>
    /\ post_data.solution = <<>>
    /\ post_data.takeaway = <<>>
    /\ tweets = <<<<>>, S_footer>>

----------------------------------------------------------------------------
(* Spec: one run of prepare_social_post on one document *)

S_js == <<"j", "s">>

\* the fenced blocks a document of Spec is made of
BlockKinds ==
    {[lang |-> S_python, code |-> <<"x">>],
     [lang |-> S_python, code |-> <<"x", "(">>],
     [lang |-> S_python, code |-> S_mirascope],
     [lang |-> S_python, code |-> S_mirascope \o <<"(">>],
     [lang |-> S_python, code |-> S_llm_call],
     [lang |-> S_Python, code |-> <<"x", "(">>],
     [lang |-> S_js, code |-> <<"x", "(">>]}

BlockSeqs(n) == {<<>>} \cup SeqsUpTo(BlockKinds, n)

\* A document is: [text before the title] the title line "## T", a blank
\* line or just a newline, [the hook line], the introduction, [the Problem
\* section], the fenced blocks, [the Solution section, in one of its heading
\* forms], [the Takeaway section].  Either the layout varies and the document
\* holds at most one block, or the layout is the full one and the blocks vary.
DocParts ==
    {d \in [pre : BOOLEAN, sep : {"blank", "newline"}, hook : BOOLEAN,
            problem : BOOLEAN, blocks : BlockSeqs(MaxBlocks),
            solution : {"none", "colon", "newline", "space"},
            takeaway : BOOLEAN] :
        \/ Len(d.blocks) <= 1
        \/ (~d.pre /\ d.sep = "blank" /\ d.hook /\ d.problem
            /\ d.solution = "colon" /\ d.takeaway)}

TitleText == <<"T">>
HookText == <<"H">>
TitleLine == S_h2 \o <<" ">> \o TitleText

RenderBlock(b) == Fence \o b.lang \o <<NL>> \o b.code \o <<NL>> \o Fence \o <<NL, NL>>

RenderDoc(d) ==
    (IF d.pre THEN <<"p", NL, NL>> ELSE <<>>)
    \o TitleLine
    \o (IF d.sep = "blank" THEN <<NL, NL>> ELSE <<NL>>)
    \o (IF d.hook THEN S_bold \o HookText \o S_bold \o <<NL, NL>> ELSE <<>>)
    \o <<"i", NL, NL>>
    \o (IF d.problem THEN S_h3 \o <<" ">> \o S_TheProblem \o <<NL, NL, "b", NL, NL>>
        ELSE <<>>)
    \o Concat([k \in 1..Len(d.blocks) |-> RenderBlock(d.blocks[k])])
    \o (IF d.solution = "colon" THEN S_SolutionColon \o <<"Y", NL, NL, "g", NL, NL>>
        ELSE IF d.solution = "newline"
             THEN S_h3 \o <<" ">> \o S_TheSolution \o <<NL, NL, "g", NL, NL>>
        ELSE IF d.solution = "space" THEN S_SolutionSpace \o <<"Y", NL, NL, "g", NL, NL>>
        ELSE <<>>)
    \o (IF d.takeaway THEN S_TakeawayHeading \o <<NL, NL, "f", NL>> ELSE <<>>)

\* the document of the runs in which the machine, not the document, varies
DefaultDoc ==
    [pre |-> FALSE, sep |-> "blank", hook |-> TRUE, problem |-> TRUE, blocks |-> <<>>,
     solution |-> "colon", takeaway |-> TRUE]

\* os.path.basename(markdown_file).split('.')[0] for the file post.md
base_filename == <<"p", "o", "s", "t">>

S_png == <<".", "p", "n", "g">>

\* image files that may lie in "." and "..": one named by carbon-now, one
\* named after a block, and one with the name the generator itself chooses
ImageNames ==
    {base_filename \o <<"-", "a">> \o S_png,
     base_filename \o <<"_", "c", "o", "d", "e", "_", "1">> \o S_png,
     base_filename \o <<"_", "c", "o", "d", "e">> \o S_png}

RootDirs == [cur : SUBSET ImageNames, par : SUBSET ImageNames]

DefaultDirs == [cur |-> {base_filename \o <<"-", "a">> \o S_png}, par |-> {}]

\* the prefixes of the four patterns "<prefix>*.png", in the order searched
SearchPrefixes ==
    <<base_filename \o <<"-">>,
      base_filename \o <<"_", "B", "E", "F", "O", "R", "E", "_">>,
      base_filename \o <<"_", "A", "F", "T", "E", "R", "_">>,
      base_filename \o <<"_", "c", "o", "d", "e", "_">>>>

\* find -name "<prefix>*.png" accepts name
GlobMatch(name, prefix) ==
    /\ Len(name) >= Len(prefix) + Len(S_png)
    /\ StartsWith(name, prefix)
    /\ EndsWith(name, S_png)

RECURSIVE SetToSeq(_)
SetToSeq(S) ==
    IF S = {} THEN <<>>
    ELSE LET x == CHOOSE x \in S : TRUE IN <<x>> \o SetToSeq(S \ {x})

\* one search: the paths find prints for a directory and a pattern
find(dirs, search_dir, prefix) ==
    LET names == {n \in dirs[search_dir] : GlobMatch(n, prefix)}
    IN  SetToSeq({<<search_dir, n>> : n \in names})

\* the searches of one directory, in the order of the patterns
find_in_dir(dirs, search_dir) ==
    Concat([k \in 1..Len(SearchPrefixes) |-> find(dirs, search_dir, SearchPrefixes[k])])

\* a search that looks in the current directory only
found_images_CurrentDirOnly(dirs) == find_in_dir(dirs, "cur")

\* root_images after the loop over [".", ".."]
found_images(dirs) == find_in_dir(dirs, "cur") \o find_in_dir(dirs, "par")

\* os.path.basename of a path of the model, a pair <<directory, name>>
basename(path) == path[2]

\* os.path.join(images_dir, img_name)
dest_path(img_name) == <<"images", img_name>>

\* lines 211-214: every entry of the manifest with the name of the moved
\* file becomes the destination path
update_manifest(paths, img_name, dest) ==
    [key \in DOMAIN paths |->
        [k \in DOMAIN paths[key] |->
            IF basename(paths[key][k]) = img_name THEN dest ELSE paths[key][k]]]

\* what mv does: it moves the file, or exits non-zero (CalledProcessError)
MoveEnvs == {"ok", "fails"}

Init ==
    /\ pc = "start"
    /\ doc_parts \in DocParts
    /\ input_exists \in BOOLEAN
    /\ root_dirs \in RootDirs
    /\ \/ input_exists /\ root_dirs = DefaultDirs
       \/ doc_parts = DefaultDoc
    /\ content = RenderDoc(doc_parts)
    /\ regions = <<>>
    /\ code_blocks = <<>>
    /\ clean_once = <<>>
    /\ clean_twice = <<>>
    /\ block_i = 0
    /\ verified = TRUE
    /\ results = <<>>
    /\ tmp_files = {}
    /\ post_data = <<>>
    /\ linkedin_content = <<>>
    /\ tweets = <<>>
    /\ files = {}
    /\ image_paths = <<>>
    /\ root_images = <<>>
    /\ move_i = 0
    /\ move_log = <<>>
    /\ ImgUnused
    /\ PiiUnused

\* prepare_social_post on a path that does not exist: the output directory
\* is created (line 109), then process_markdown_file raises
\* FileNotFoundError (lines 134-135)
MissingInput ==
    /\ pc = "start"
    /\ ~input_exists
    /\ files' = files \cup {"output_dir"}
    /\ pc' = "not_found"
    /\ UNCHANGED <<content, regions, code_blocks, clean_once, clean_twice, doc_parts,
                   block_i, verified, results, tmp_files, post_data, linkedin_content,
                   tweets, asmVars, imgVars, piiVars>>

\* prepare_social_post creates the output directory and calls
\* process_markdown_file, which reads the file, extracts the blocks and
\* sets verified = True before its loop
ReadAndExtract ==
    /\ pc = "start"
    /\ input_exists
    /\ files' = files \cup {"output_dir"}
    /\ code_blocks' = extract_code_blocks(content)
    /\ verified' = TRUE
    /\ block_i' = 1
    /\ pc' = "verifying"
    /\ UNCHANGED <<content, regions, clean_once, clean_twice, doc_parts, results,
                   tmp_files, post_data, linkedin_content, tweets>>
    /\ UNCHANGED <<asmVars, imgVars, piiVars>>

\* one turn of the loop "for lang, code, label in code_blocks"
VerifyBlock ==
    /\ pc = "verifying"
    /\ block_i <= Len(code_blocks)
    /\ \E env \in Envs :
         LET b == code_blocks[block_i]
             r == IF IsPython(b.lang) THEN verify_python_code(b.code, env)
                  ELSE NotVerified
         IN  /\ results' = Append(results, r)
             /\ tmp_files' = IF r.temp_left THEN tmp_files \cup {block_i} ELSE tmp_files
             /\ verified' = IF r.called /\ ~r.raised
                            THEN update_verified(verified, r.ret) ELSE verified
             /\ pc' = IF r.raised THEN "raised" ELSE "verifying"
    /\ block_i' = block_i + 1
    /\ UNCHANGED <<content, regions, code_blocks, clean_once, clean_twice, doc_parts,
                   post_data, linkedin_content, tweets, files>>
    /\ UNCHANGED <<asmVars, imgVars, piiVars>>

\* the rest of process_markdown_file: the clean content, the sections and
\* the dict it returns
FinishProcess ==
    /\ pc = "verifying"
    /\ block_i > Len(code_blocks)
    /\ post_data' =
         [title |-> extract_title(content, base_filename),
          hook |-> extract_hook(content),
          first_tweet |-> extract_first_tweet(content),
          solution |-> extract_sections(content).solution,
          takeaway |-> extract_sections(content).takeaway,
          clean_content |-> clean_for_social(content),
          code_blocks |-> code_blocks,
          verified |-> verified]
    /\ pc' = "processed"
    /\ UNCHANGED <<content, regions, code_blocks, clean_once, clean_twice, doc_parts,
                   block_i, verified, results, tmp_files, linkedin_content, tweets,
                   files>>
    /\ UNCHANGED <<asmVars, imgVars, piiVars>>

\* prepare_social_post sets the manifest to the empty dict (the call of
\* process_code_blocks_from_file is commented out, lines 117-119), builds
\* the LinkedIn text and the thread and writes linkedin.txt and one file
\* per tweet
BuildPosts ==
    /\ pc = "processed"
    /\ image_paths' = <<>>
    /\ linkedin_content' = linkedin_text(post_data.clean_content)
    /\ tweets' = create_twitter_thread(post_data)
    /\ files' = files \cup {"linkedin.txt", "twitter_1.txt", "twitter_2.txt"}
    /\ pc' = "posted"
    /\ UNCHANGED <<content, regions, code_blocks, clean_once, clean_twice, doc_parts,
                   block_i, verified, results, tmp_files, post_data>>
    /\ UNCHANGED <<input_exists, root_dirs, root_images, move_i, move_log, imgVars,
                   piiVars>>

\* lines 155-196: no path of the (empty) manifest exists, so the images
\* directory is created; then "." and ".." are searched
FindImages ==
    /\ pc = "posted"
    /\ files' = files \cup {"images"}
    /\ root_images' = found_images(root_dirs)
    /\ move_i' = 1
    /\ pc' = "moving"
    /\ UNCHANGED <<content, regions, code_blocks, clean_once, clean_twice, doc_parts,
                   block_i, verified, results, tmp_files, post_data, linkedin_content,
                   tweets, input_exists, image_paths, root_dirs, move_log, imgVars,
                   piiVars>>

\* one turn of the loop "for img_path in root_images" (lines 199-216)
MoveImage ==
    /\ pc = "moving"
    /\ move_i <= Len(root_images)
    /\ \E env \in MoveEnvs :
         LET img_path == root_images[move_i]
             img_name == basename(img_path)
             dest == dest_path(img_name)
         IN  IF env = "ok"
             THEN /\ root_dirs' = [root_dirs EXCEPT ![img_path[1]] = @ \ {img_name}]
                  /\ images' = {im \in images : im[1] # dest} \cup {<<dest, img_path>>}
                  /\ image_paths' = update_manifest(image_paths, img_name, dest)
                  /\ move_log' = Append(move_log, [path |-> img_path, moved |-> TRUE,
                                                   reported |-> FALSE])
             ELSE /\ move_log' = Append(move_log, [path |-> img_path, moved |-> FALSE,
                                                   reported |-> TRUE])
                  /\ UNCHANGED <<root_dirs, images, image_paths>>
    /\ move_i' = move_i + 1
    /\ UNCHANGED <<pc, content, regions, code_blocks, clean_once, clean_twice,
                   doc_parts, block_i, verified, results, tmp_files, post_data,
                   linkedin_content, tweets, files, input_exists, root_images, img_i,
                   renderer_calls, staged, piiVars>>

\* lines 218-225: summary.json is written and the result returned
WriteSummary ==
    /\ pc = "moving"
    /\ move_i > Len(root_images)
    /\ files' = files \cup {"summary.json"}
    /\ pc' = "done"
    /\ UNCHANGED <<content, regions, code_blocks, clean_once, clean_twice, doc_parts,
                   block_i, verified, results, tmp_files, post_data, linkedin_content,
                   tweets, asmVars, imgVars, piiVars>>

Next ==
    \/ MissingInput
    \/ ReadAndExtract
    \/ VerifyBlock
    \/ FinishProcess
    \/ BuildPosts
    \/ FindImages
    \/ MoveImage
    \/ WriteSummary

Spec == Init /\ [][Next]_vars

Returned == pc \in {"processed", "posted", "moving", "done"}

\* number of places where lit occurs in s
Occurrences(s, lit) == Cardinality({p \in 1..Len(s) : StartsAt(s, p, lit)})

\* s has a line that is exactly line
HasLine(s, line) ==
    \E p \in 1..Len(s) :
        /\ LineStart(s, p)
        /\ StartsAt(s, p, line)
        /\ LineEnd(s, p) = p + Len(line)

\* C3: the flag is the conjunction of the results of the python blocks
\* verified so far, so it stays false once a block has failed; and when
\* process_markdown_file returns, every block has been visited, every block
\* tagged python has been verified, and the flag returned is the conjunction
\* over all of them.
C3_VerifiedIsConjunction ==
    /\ pc \in {"verifying", "raised"} =>
         verified = (\A k \in 1..Len(results) :
                        (results[k].called /\ ~results[k].raised) => results[k].ret)
    /\ Returned =>
         /\ Len(results) = Len(code_blocks)
         /\ \A k \in 1..Len(code_blocks) :
              results[k].called = IsPython(code_blocks[k].lang)
         /\ post_data.verified =
              (\A k \in 1..Len(code_blocks) :
                  IsPython(code_blocks[k].lang) => results[k].ret)

\* a failing python block was followed by a passing one, and the flag
\* returned is false
C3_Witness ==
    /\ pc = "processed"
    /\ Len(results) = 2
    /\ results[1].called /\ ~results[1].ret
    /\ results[2].called /\ results[2].ret
    /\ post_data.verified = FALSE

C7_MarkerSyntaxOnly ==
    \A k \in 1..Len(results) :
        (IsPython(code_blocks[k].lang) /\ HasMarker(code_blocks[k].code)) =>
            /\ results[k].called
            /\ ~results[k].raised
            /\ results[k].ret = compile_ok(code_blocks[k].code)
            /\ results[k].effects = {"compile"}
            /\ ~results[k].temp_left

\* a marker block that compiles and one that does not were both verified
C7_Witness ==
    /\ pc = "processed"
    /\ Len(results) = 2
    /\ HasMarker(code_blocks[1].code) /\ results[1].called /\ results[1].ret
    /\ HasMarker(code_blocks[2].code) /\ results[2].called /\ ~results[2].ret

\* C12: whenever verify_python_code has taken the subprocess path (it
\* created a temporary file), the file no longer exists when the call ends,
\* whether the call returned or raised.
C12_TempFileRemoved ==
    /\ \A k \in 1..Len(results) :
         "tempfile" \in results[k].effects => ~results[k].temp_left
    /\ tmp_files = {}

\* C8: for a document that begins with the title line and a blank line, the
\* LinkedIn content does not begin with the title text and is the clean
\* content without its leading title line.
C8_LinkedinWithoutTitle ==
    (pc = "posted" /\ ~doc_parts.pre /\ doc_parts.sep = "blank") =>
        /\ ~StartsWith(linkedin_content, TitleText)
        /\ post_data.clean_content = TitleText \o <<NL, NL>> \o linkedin_content

\* C9: a non-empty solution makes tweet 2 begin with **Solution:** and hold
\* no raw Solution heading; the takeaway carries its label instead of its heading.
C9_SolutionLabel ==
    (pc = "posted" /\ post_data.solution # <<>>) =>
        /\ StartsWith(tweets[2], <<"*","*","S","o","l","u","t","i","o","n",":","*","*">>)
        /\ ~Contains(tweets[2], S_h3 \o <<" ">> \o S_TheSolution)
        /\ Contains(tweets[2], S_TakeawayLabel)
        /\ ~Contains(tweets[2], S_TakeawayHeading)

\* C10: tweet 1 never holds the title heading line, and holds the hook once.
C10_FirstTweetWithoutTitle ==
    pc = "posted" =>
        /\ ~HasLine(tweets[1], TitleLine)
        /\ doc_parts.hook => Occurrences(tweets[1], HookText) = 1

----------------------------------------------------------------------------
(* generate_images.py: generate_image_with_carbon and                      *)
(* process_code_blocks_from_file                                           *)

S_txt == <<"t","x","t">>

\* the languages process_code_blocks_from_file renders
RecognizedLanguages ==
    {S_python,
     <<"j","a","v","a","s","c","r","i","p","t">>,
     <<"t","y","p","e","s","c","r","i","p","t">>,
     <<"j","a","v","a">>,
     <<"b","a","s","h">>,
     <<"s","h">>,
     S_txt,
     <<"s","q","l">>}

\* if not lang: lang = "txt"
render_lang(lang) == IF lang = <<>> THEN S_txt ELSE lang

\* lang.lower() in [...] after the default has been applied
IsRecognized(lang) == Lower(render_lang(lang)) \in RecognizedLanguages

\* the file name chosen from the label, for the document doc.md
output_filename(label) ==
    IF label = "BEFORE" THEN "doc_BEFORE.png"
    ELSE IF label = "AFTER" THEN "doc_AFTER.png"
    ELSE "doc_code.png"

\* os.path.join(output_dir, output_filename)
output_path(output_dir, label) == <<output_dir, output_filename(label)>>

\* what the machine does when a code block is staged and rendered: all goes
\* well, temp.write raises, carbon-now is not installed (FileNotFoundError),
\* carbon-now exits non-zero (CalledProcessError), or the 30 seconds expire
\* (TimeoutExpired)
RenderEnvs == {"ok", "write_fails", "not_installed", "nonzero_exit", "timeout"}

\* generate_image_with_carbon(code, language, output_path) on a machine that
\* behaves as env says.  exception is the exception that leaves the call
\* ("" when it returns), effects are the operations performed, image tells
\* that the renderer wrote its image, temp_left that the staged temporary
\* file still exists when the call ends, diagnostic that the function
\* printed a message about a failure.
generate_image_with_carbon(code, language, path, env) ==
    IF env = "write_fails"
    THEN [exception |-> "OSError", effects |-> {"tempfile"}, image |-> FALSE,
          temp_left |-> TRUE, diagnostic |-> FALSE]
    ELSE IF env = "not_installed"
    THEN [exception |-> "FileNotFoundError", effects |-> {"tempfile", "write"},
          image |-> FALSE, temp_left |-> TRUE, diagnostic |-> FALSE]
    ELSE IF env = "nonzero_exit"
    THEN [exception |-> "CalledProcessError",
          effects |-> {"tempfile", "write", "subprocess"}, image |-> FALSE,
          temp_left |-> TRUE, diagnostic |-> FALSE]
    ELSE IF env = "timeout"
    THEN [exception |-> "TimeoutExpired",
          effects |-> {"tempfile", "write", "subprocess"}, image |-> FALSE,
          temp_left |-> TRUE, diagnostic |-> FALSE]
    ELSE [exception |-> "", effects |-> {"tempfile", "write", "subprocess"},
          image |-> TRUE, temp_left |-> TRUE, diagnostic |-> FALSE]

----------------------------------------------------------------------------
(* SpecImages: process_code_blocks_from_file("doc.md", "images") on one    *)
(* document                                                                *)

S_js_region == [kind |-> "block", lang |-> <<"j", "s">>, lines |-> <<CodeLine>>]

ImageRegions == Regions \cup {S_js_region}

InitImages ==
    /\ pc = "start"
    /\ regions \in SeqsUpTo(ImageRegions, MaxRegions)
    /\ content = RenderRegions(regions)
    /\ code_blocks = <<>>
    /\ clean_once = <<>>
    /\ clean_twice = <<>>
    /\ RunUnused

\* lines 65-74: read the file, extract the blocks, create the output directory
ImgExtract ==
    /\ pc = "start"
    /\ code_blocks' = extract_code_blocks(content)
    /\ image_paths' = <<>>
    /\ img_i' = 1
    /\ pc' = "rendering"
    /\ UNCHANGED <<content, regions, clean_once, clean_twice, doc_parts, block_i,
                   verified, results, tmp_files, post_data, linkedin_content, tweets,
                   files, input_exists, root_dirs, root_images, move_i, move_log,
                   renderer_calls, staged, images, piiVars>>

\* one turn of the loop for a block of an unrecognized language: continue
SkipBlock ==
    /\ pc = "rendering"
    /\ img_i <= Len(code_blocks)
    /\ ~IsRecognized(code_blocks[img_i].lang)
    /\ img_i' = img_i + 1
    /\ UNCHANGED <<pc, content, regions, code_blocks, clean_once, clean_twice,
                   doc_parts, block_i, verified, results, tmp_files, post_data,
                   linkedin_content, tweets, files, asmVars, renderer_calls, staged,
                   images, piiVars>>

\* one turn of the loop for a block of a recognized language: choose the
\* file name, call generate_image_with_carbon, append the path
GenerateImage ==
    /\ pc = "rendering"
    /\ img_i <= Len(code_blocks)
    /\ IsRecognized(code_blocks[img_i].lang)
    /\ \E env \in RenderEnvs :
         LET b == code_blocks[img_i]
             path == output_path("images", b.label)
             r == generate_image_with_carbon(b.code, render_lang(b.lang), path, env)
         IN  /\ renderer_calls' = Append(renderer_calls, [block |-> img_i, path |-> path] @@ r)
             /\ staged' = IF r.temp_left THEN staged \cup {img_i} ELSE staged
             /\ images' = IF r.image
                          THEN {im \in images : im[1] # path} \cup {<<path, img_i>>}
                          ELSE images
             /\ image_paths' = IF r.exception = "" THEN Append(image_paths, path)
                               ELSE image_paths
             /\ pc' = IF r.exception = "" THEN "rendering" ELSE "img_raised"
    /\ img_i' = img_i + 1
    /\ UNCHANGED <<content, regions, code_blocks, clean_once, clean_twice, doc_parts,
                   block_i, verified, results, tmp_files, post_data, linkedin_content,
                   tweets, files, input_exists, root_dirs, root_images, move_i,
                   move_log, piiVars>>

\* return image_paths
ImgReturn ==
    /\ pc = "rendering"
    /\ img_i > Len(code_blocks)
    /\ pc' = "img_returned"
    /\ UNCHANGED <<content, regions, code_blocks, clean_once, clean_twice, doc_parts,
                   block_i, verified, results, tmp_files, post_data, linkedin_content,
                   tweets, files, asmVars, imgVars, piiVars>>

NextImages == ImgExtract \/ SkipBlock \/ GenerateImage \/ ImgReturn

SpecImages == InitImages /\ [][NextImages]_vars

\* the blocks of recognized language among the first n extracted blocks
RecognizedUpTo(n) == {k \in 1..n : IsRecognized(code_blocks[k].lang)}

\* C11: a failure of the renderer on one block is not fatal: no exception
\* leaves process_code_blocks_from_file, the failed call printed a
\* diagnostic, and when the function returns the renderer has been tried on
\* every block of a recognized language and the list of paths holds exactly
\* the images of the calls that succeeded.
C11_RendererFailureNotFatal ==
    /\ pc # "img_raised"
    /\ \A k \in 1..Len(renderer_calls) :
         renderer_calls[k].exception # "" => renderer_calls[k].diagnostic
    /\ pc = "img_returned" =>
         /\ {renderer_calls[k].block : k \in 1..Len(renderer_calls)}
              = RecognizedUpTo(Len(code_blocks))
         /\ Len(image_paths)
              = Cardinality({k \in 1..Len(renderer_calls) : renderer_calls[k].image})

\* C13: when a call of generate_image_with_carbon has ended, with an image
\* or with an exception, the temporary file it staged no longer exists; so
\* none of the staged files remains when process_code_blocks_from_file ends.
C13_StagedFileReleased ==
    /\ \A k \in 1..Len(renderer_calls) : ~renderer_calls[k].temp_left
    /\ pc \in {"img_returned", "img_raised"} => staged = {}

\* C19: the list returned holds no path twice, and every block rendered
\* still has its own image in the output directory.
C19_DistinctOutputPaths ==
    pc = "img_returned" =>
        /\ \A j, k \in 1..Len(image_paths) : j # k => image_paths[j] # image_paths[k]
        /\ \A k \in 1..Len(renderer_calls) :
             renderer_calls[k].image =>
                 <<renderer_calls[k].path, renderer_calls[k].block>> \in images

----------------------------------------------------------------------------
(* Further properties of process_markdown_file, under Spec *)

\* the text of a document between its title line and what follows the
\* introduction (the Problem heading when there is one)
IntroText(d) ==
    (IF d.sep = "blank" THEN <<NL, NL>> ELSE <<NL>>)
    \o (IF d.hook THEN S_bold \o HookText \o S_bold \o <<NL, NL>> ELSE <<>>)
    \o <<"i", NL, NL>>

\* C15: for a document with a Problem heading, first_tweet is the text
\* between the title line and the Problem heading (surrounding whitespace
\* aside): it holds neither the title line nor the heading.
C15_FirstTweetAfterTitle ==
    (Returned /\ doc_parts.problem) =>
        /\ post_data.first_tweet = Strip(IntroText(doc_parts))
        /\ ~HasLine(post_data.first_tweet, TitleLine)
        /\ ~Contains(post_data.first_tweet, S_h3 \o <<" ">> \o S_TheProblem)

----------------------------------------------------------------------------
(* Properties of the whole run of prepare_social_post, under Spec *)

\* the number of paths in a manifest (a dict from label to list of paths)
ManifestSize(paths) ==
    Cardinality(UNION {{<<key, k>> : k \in DOMAIN paths[key]} : key \in DOMAIN paths})

\* name is accepted by one of the four patterns searched
MatchesBase(name) ==
    \E k \in 1..Len(SearchPrefixes) : GlobMatch(name, SearchPrefixes[k])

\* C16: the stages come in order (the thread is built after every block has
\* been verified, the files are written after the thread), and once the
\* files are written the image stage has taken place: the renderer has been
\* invoked for each extracted block of a recognized language and the
\* manifest has an entry for each of them.
C16_ImagesGeneratedInOrder ==
    /\ tweets # <<>> => (post_data # <<>> /\ Len(results) = Len(code_blocks))
    /\ "linkedin.txt" \in files => tweets # <<>>
    /\ "summary.json" \in files => "linkedin.txt" \in files
    /\ pc \in {"posted", "moving", "done"} =>
         /\ {renderer_calls[k].block : k \in 1..Len(renderer_calls)}
              = RecognizedUpTo(Len(code_blocks))
         /\ ManifestSize(image_paths) = Cardinality(RecognizedUpTo(Len(code_blocks)))

C18_MissingInputNoEffects ==
    /\ ~input_exists => pc \in {"start", "not_found"}
    /\ pc = "not_found" => files = {}

----------------------------------------------------------------------------
(* examples/pii.py: mask_pii and unmask_pii.  A dict is a sequence of      *)
(* <<key, value>> pairs with distinct keys, in insertion order.            *)

S_PERSON == <<"P", "E", "R", "S", "O", "N">>
S_EMAIL_ADDRESS == <<"E", "M", "A", "I", "L", "_", "A", "D", "D", "R", "E", "S", "S">>

\* f"<{result.entity_type}>"
placeholder(entity_type) == <<"<">> \o entity_type \o <<">">>

\* text[result.start:result.end]
entity_text(text, result) == SubSeq(text, result.start + 1, result.end)

\* d[key] = value: an existing key keeps its place and takes the new value
dict_set(d, key, value) ==
    IF \E k \in 1..Len(d) : d[k][1] = key
    THEN [k \in 1..Len(d) |-> IF d[k][1] = key THEN <<key, value>> ELSE d[k]]
    ELSE Append(d, <<key, value>>)

RECURSIVE build_mapping(_, _, _)
\* the dict comprehension of line 9 over the results from index k on, added to d
build_mapping(text, rs, d) ==
    IF rs = <<>> THEN d
    ELSE build_mapping(text, Tail(rs),
                       dict_set(d, placeholder(Head(rs).entity_type),
                                entity_text(text, Head(rs))))

RECURSIVE invert_mapping(_, _)
\* {v: k for k, v in mapping.items()}, added to d
invert_mapping(items, d) ==
    IF items = <<>> THEN d
    ELSE invert_mapping(Tail(items), dict_set(d, Head(items)[2], Head(items)[1]))

RECURSIVE unmask_pii(_, _)
\* for k, v in mapping.items(): text = text.replace(k, v)
unmask_pii(text, items) ==
    IF items = <<>> THEN text
    ELSE unmask_pii(Replace(text, Head(items)[1], Head(items)[2], 1), Tail(items))

\* mask_pii for a text on which the analyzer returns rs
mask_pii(text, rs) ==
    LET m == build_mapping(text, rs, <<>>)
        inverse_mapping == invert_mapping(m, <<>>)
    IN  [masked |-> unmask_pii(text, inverse_mapping), mapping |-> m]

----------------------------------------------------------------------------
(* SpecPii: mask_pii on one text, then unmask_pii on what it returned *)

PiiChars == {"a", "b"}

PiiTexts == UNION {[1..n -> PiiChars] : n \in 1..MaxTextLen}

\* the results an analyzer can return on a text: non-empty spans of it
ResultsFor(text) ==
    {r \in [entity_type : {S_PERSON, S_EMAIL_ADDRESS}, start : 0..(Len(text) - 1),
            end : 1..Len(text)] : r.start < r.end}

\* the spans of the results do not overlap
Disjoint(rs) ==
    \A j, k \in 1..Len(rs) :
        j < k => (rs[j].end <= rs[k].start \/ rs[k].end <= rs[j].start)

InitPii ==
    /\ pc = "start"
    /\ pii_text \in PiiTexts
    /\ analyzer_results \in
         {rs \in {<<>>} \cup SeqsUpTo(ResultsFor(pii_text), MaxResults) : Disjoint(rs)}
    /\ mapping = <<>>
    /\ masked = <<>>
    /\ unmasked = <<>>
    /\ content = <<>>
    /\ regions = <<>>
    /\ code_blocks = <<>>
    /\ clean_once = <<>>
    /\ clean_twice = <<>>
    /\ doc_parts = <<>>
    /\ block_i = 0
    /\ verified = TRUE
    /\ results = <<>>
    /\ tmp_files = {}
    /\ post_data = <<>>
    /\ linkedin_content = <<>>
    /\ tweets = <<>>
    /\ files = {}
    /\ AsmUnused
    /\ ImgUnused

\* anonymized_text, mapping = mask_pii(text)
MaskPii ==
    /\ pc = "start"
    /\ masked' = mask_pii(pii_text, analyzer_results).masked
    /\ mapping' = mask_pii(pii_text, analyzer_results).mapping
    /\ pc' = "masked"
    /\ UNCHANGED <<content, regions, code_blocks, clean_once, clean_twice, doc_parts,
                   block_i, verified, results, tmp_files, post_data, linkedin_content,
                   tweets, files, asmVars, imgVars, pii_text, analyzer_results,
                   unmasked>>

\* unmask_pii(anonymized_text, mapping)
UnmaskPii ==
    /\ pc = "masked"
    /\ unmasked' = unmask_pii(masked, mapping)
    /\ pc' = "unmasked"
    /\ UNCHANGED <<content, regions, code_blocks, clean_once, clean_twice, doc_parts,
                   block_i, verified, results, tmp_files, post_data, linkedin_content,
                   tweets, files, asmVars, imgVars, pii_text, analyzer_results,
                   mapping, masked>>

NextPii == MaskPii \/ UnmaskPii

SpecPii == InitPii /\ [][NextPii]_vars

\* C20: the masked text holds none of the detected substrings, the mapping
\* holds an entry for each of them, and unmasking the masked text with the
\* mapping gives the original text back.
C20_MaskEveryEntity ==
    /\ pc \in {"masked", "unmasked"} =>
         \A k \in 1..Len(analyzer_results) :
             /\ ~Contains(masked, entity_text(pii_text, analyzer_results[k]))
             /\ \E j \in 1..Len(mapping) :
                    mapping[j][2] = entity_text(pii_text, analyzer_results[k])
    /\ pc = "unmasked" => unmasked = pii_text

====
